---- MODULE Spec2Model ----
(***************************************************************************)
(* The Delivery Queue of the analytics SDK (src/src/core/queue.ts): the    *)
(* in-memory buffer, its flush triggers (threshold, timer, explicit), the  *)
(* in-flight Transport call and the retry path.                            *)
(*                                                                         *)
(* One step of the model is one run-to-completion piece of JavaScript: a   *)
(* public method call up to its return (a flush() it makes runs up to its  *)
(* first await, i.e. up to the fetch call), a timer callback, or the       *)
(* settling of an in-flight fetch followed by the rest of flush().         *)
(*                                                                         *)
(* The Analytics facade (src/src/core/analytics.ts) is modelled on top of  *)
(* the queue: the loading of the plugins, register(), and the facade calls *)
(* that run an event through the plugin handlers and push the result.      *)
(***************************************************************************)
EXTENDS Integers, Sequences, FiniteSets, TLC

\* ---- bounds of the model ------------------------------------------------
MaxPush == 3            \* events pushed in one behaviour
MaxFlushAt == 4         \* config.flushAt ranges over 0..MaxFlushAt
MaxQueueSize == 2       \* config.maxQueueSize ranges over 0..MaxQueueSize
MaxRetry == 2           \* config.retryAttempts ranges over 0..MaxRetry
MaxFlushCalls == MaxRetry + 2   \* flush() calls of the awaiting caller
MaxCalls == 2           \* facade calls (track, page) in one behaviour
MaxReset == 1           \* reset() calls in one behaviour

VARIABLES
    config,       \* Queue.config: flushAt, maxQueueSize, retryAttempts
    queue,        \* Queue.queue: the buffered QueueItems, oldest first
    isFlushing,   \* Queue.isFlushing
    flushTimer,   \* Queue.flushTimer # null
    inflight,     \* the batches of the flush() calls suspended in their await
    nextId,       \* identity of the next event handed to push()
    calls,        \* number of Transport (fetch) calls started so far
    fate,         \* what became of each event
    requeued,     \* events the last settled send put back, none of its batch dropped
    destroyedAt,  \* 0, or nextId at the time destroy() last returned
    flushCalls,   \* explicit flush() calls made by the awaiting caller
    awaited,      \* the awaiting caller's last flush(): its promise
    customFetch,  \* AnalyticsConfig.customFetch is given
    fetchFns,     \* the fetch functions the Transport calls were made with
    sortedPlugins,\* Analytics.loadPlugins: config.plugins after the sort
    loadPos,      \* Analytics.loadPlugins: index of the plugin being loaded
    isReady,      \* Analytics.isReady
    plugins,      \* Analytics.plugins: the names in Map (insertion) order
    loadSt,       \* what became of each plugin's load()
    procs,        \* the facade calls: where each one is in processEvent
    ready,        \* facade calls resumed by the next microtasks, in order
    pushed,       \* the events handed to Queue.push by the facade, in order
    userId,       \* Analytics._userId
    traits,       \* Analytics._traits
    anonymousId,  \* Analytics._anonymousId
    built,        \* the events the facade has built, by event identity
    sends,        \* the Transport calls each pending event has been part of
    registered,   \* the plugins in registration order: config.plugins, register()
    loads         \* the plugins in the order their load() was invoked

vars == <<config, queue, isFlushing, flushTimer, inflight, nextId, calls,
          fate, requeued, destroyedAt, flushCalls, awaited, customFetch,
          fetchFns, sortedPlugins, loadPos, isReady, plugins, loadSt, procs,
          ready, pushed, userId, traits, anonymousId, built, sends,
          registered, loads>>

identity == <<userId, traits, anonymousId>>

pluginLog == <<registered, loads>>

facade == <<customFetch, sortedPlugins, loadPos, isReady, plugins, loadSt,
            procs, ready, pushed, userId, traits, anonymousId, built,
            registered, loads>>

caller == <<flushCalls, awaited>>

\* ---- data ---------------------------------------------------------------
EventIds == 1..MaxPush

Outcomes == {"ok", "notok", "throw"}

QueueConfig ==
    [flushAt : 0..MaxFlushAt,
     maxQueueSize : 0..MaxQueueSize,
     retryAttempts : 0..MaxRetry]

NewItem(e) == [id |-> e, attempts |-> 0]

Ids(q) == {q[i].id : i \in 1..Len(q)}

BatchIds(fl) == UNION {Ids(fl[i]) : i \in 1..Len(fl)}

NoCall == [st |-> "none", snap |-> {}, next |-> 0, pos |-> 0]

\* ---- Queue.flush, up to its await ----------------------------------------
\* variant of FlushGuard that does not test the in-flight flag
FlushGuard_NoFlag(flushing, q) == Len(q) = 0

\* variant of FlushGuard that does not test for an empty buffer
FlushGuard_NoEmpty(flushing, q) == flushing

FlushGuard(flushing, q) == flushing \/ Len(q) = 0

\* variant of FlushStart that forgets to empty the buffer
FlushStart_NoReset(flushing, q, fl) ==
    IF FlushGuard(flushing, q)
    THEN [started |-> FALSE, isFlushing |-> flushing, queue |-> q, inflight |-> fl]
    ELSE [started |-> TRUE, isFlushing |-> TRUE, queue |-> q,
          inflight |-> Append(fl, q)]

\* variant of FlushStart that hands over the head of the buffer only
FlushStart_OneItem(flushing, q, fl) ==
    IF FlushGuard(flushing, q)
    THEN [started |-> FALSE, isFlushing |-> flushing, queue |-> q, inflight |-> fl]
    ELSE [started |-> TRUE, isFlushing |-> TRUE, queue |-> Tail(q),
          inflight |-> Append(fl, <<Head(q)>>)]

FlushStart(flushing, q, fl) ==
    IF FlushGuard(flushing, q)
    THEN [started |-> FALSE, isFlushing |-> flushing, queue |-> q, inflight |-> fl]
    ELSE [started |-> TRUE, isFlushing |-> TRUE, queue |-> <<>>,
          inflight |-> Append(fl, q)]

\* ---- Queue.push: the eviction after the threshold check ------------------
Evict(q) == IF Len(q) > config.maxQueueSize THEN Tail(q) ELSE q

Evicted(q) == IF Len(q) > config.maxQueueSize THEN {q[1].id} ELSE {}

\* variant of AutoFlush that compares with > instead of >=
AutoFlush_Strict(flushing, q, fl) ==
    IF Len(q) > config.flushAt
    THEN FlushStart(flushing, q, fl)
    ELSE [started |-> FALSE, isFlushing |-> flushing, queue |-> q, inflight |-> fl]

AutoFlush(flushing, q, fl) ==
    IF Len(q) >= config.flushAt
    THEN FlushStart(flushing, q, fl)
    ELSE [started |-> FALSE, isFlushing |-> flushing, queue |-> q, inflight |-> fl]

\* ---- Queue.flush, the catch block ----------------------------------------
\* variant of Bump that leaves attempts as it is
Bump_Forgotten(batch) == batch

Bump(batch) == [i \in 1..Len(batch) |-> [batch[i] EXCEPT !.attempts = @ + 1]]

\* variant of Keeps in which a ceiling of 0 still allows one retry
Keeps_ZeroRetriesOnce(item) ==
    item.attempts < (IF config.retryAttempts = 0 THEN 2 ELSE config.retryAttempts)

\* variant of Keeps that compares with <= instead of <
Keeps_OneMore(item) == item.attempts <= config.retryAttempts

Keeps(item) == item.attempts < config.retryAttempts

\* variant of Retry that puts the surviving items in front of the buffer
Retry_Prepend(q, batch) == SelectSeq(Bump(batch), Keeps) \o q

Retry(q, batch) == q \o SelectSeq(Bump(batch), Keeps)

\* variant of Failed that takes a response that is not ok for a success
Failed_OnlyThrow(outcome) == outcome = "throw"

\* sendBatch throws when fetch throws and when the response is not ok; the
\* catch block of flush() runs for both
Failed(outcome) == outcome # "ok"

\* variant of FlushingAfter that resets the flag on the success path only
FlushingAfter_TryOnly(outcome) == outcome # "ok"

\* isFlushing once the send has settled: the finally block resets it
FlushingAfter(outcome) == FALSE

\* variant of TimerFires that survives clearInterval
TimerFires_Always(timer) == TRUE

\* the interval callback runs only while the interval is set
TimerFires(timer) == timer

Dropped(batch) == {Bump(batch)[i].id : i \in {j \in 1..Len(batch) : ~Keeps(Bump(batch)[j])}}

RemoveAt(s, i) == SubSeq(s, 1, i - 1) \o SubSeq(s, i + 1, Len(s))

Buffered == Ids(queue) \cup BatchIds(inflight)

SetFate(f, S, v) == [e \in EventIds |-> IF e \in S THEN v ELSE f[e]]

\* ---- initial state: new Queue(config) -----------------------------------
\* ---- Queue.sendBatch: the fetch function -----------------------------------
\* The customFetch of the QueueConfig that the Analytics constructor builds:
\* the object literal has no customFetch property, whatever the
\* AnalyticsConfig holds.
QueueCustomFetch(given) == FALSE

\* const fetchFn = this.config.customFetch || fetch
FetchFn(given) == IF QueueCustomFetch(given) THEN "customFetch" ELSE "fetch"

\* the fetch functions used so far, after a step that may start a send
Fetches(started) == IF started THEN fetchFns \cup {FetchFn(customFetch)} ELSE fetchFns

\* the Transport calls of each event still pending (in the buffer q or in a
\* batch of fl), after a step that may have started the send of the last
\* batch of fl
Sends(started, q, fl) ==
    [e \in EventIds |->
        IF e \notin Ids(q) \cup BatchIds(fl) THEN 0
        ELSE IF started /\ e \in Ids(fl[Len(fl)]) THEN sends[e] + 1
        ELSE sends[e]]

\* ---- the plugins ------------------------------------------------------------
PluginNames == {"validate", "enrich", "audit"}

\* with a second plugin of the 'before' stage
AllPluginNames == PluginNames \cup {"consent"}

PluginType(p) ==
    CASE p = "validate" -> "before"
      [] p = "consent" -> "before"
      [] p = "enrich" -> "enrichment"
      [] p = "audit" -> "after"

typeOrder(t) ==
    CASE t = "before" -> 0
      [] t = "enrichment" -> 1
      [] t = "destination" -> 2
      [] t = "after" -> 3

Kinds == {"track", "page"}

\* typeof plugin[event.type] === 'function'
Handles(p, kind) == p # "enrich" \/ kind = "track"

HandlerResults == {"ok", "null", "throw"}

LoadResults == {"ok", "failed"}

Range(s) == {s[i] : i \in 1..Len(s)}

\* config.plugins: the lists without repetition over PluginNames
PluginLists ==
    {l \in UNION {[1..n -> PluginNames] : n \in 0..Cardinality(PluginNames)} :
        \A i, j \in 1..Len(l) : i # j => l[i] # l[j]}

\* plugins.sort((a, b) => typeOrder[a.type] - typeOrder[b.type]), a stable sort
RECURSIVE SortByType(_)
SortByType(l) ==
    IF l = <<>> THEN <<>>
    ELSE LET x == l[Len(l)]
             rest == SortByType(SubSeq(l, 1, Len(l) - 1))
             NotAfter(y) == typeOrder(PluginType(y)) <= typeOrder(PluginType(x))
             After(y) == ~NotAfter(y)
         IN SelectSeq(rest, NotAfter) \o <<x>> \o SelectSeq(rest, After)

NewEvent == [live |-> TRUE, by |-> <<>>]

NoProc == [st |-> "none", kind |-> "track", pos |-> 0, value |-> NewEvent, trail |-> <<>>]

\* ---- identity ---------------------------------------------------------------
UserIds == {"u1", "u2"}

NoUser == "undefined"

TraitKeys == {"email", "plan"}

TraitValues == {"a", "b"}

Absent == "absent"

\* a traits object: each key is absent or has a value
Traits == [TraitKeys -> TraitValues \cup {Absent}]

NoTraits == [k \in TraitKeys |-> Absent]

\* the traits arguments given to identify(): none, or one key with a value
TraitUpdates ==
    {t \in Traits : Cardinality({k \in TraitKeys : t[k] # Absent}) <= 1}

\* the n-th value produced by uuid(): every call gives a new value
Uuid(n) == <<"uuid", n>>

NoAnon == <<"undefined", 0>>

OptionAnon == <<"option", 0>>

NoOptions == [userId |-> NoUser, anonymousId |-> NoAnon]

\* EventOptions: nothing given, a userId given, or an anonymousId given
Options ==
    {NoOptions, [NoOptions EXCEPT !.userId = "u2"],
     [NoOptions EXCEPT !.anonymousId = OptionAnon]}

NoEvent == [type |-> "none", userId |-> NoUser, anonymousId |-> NoAnon, given |-> NoOptions]

\* buildBaseEvent: options.userId || this._userId, options.anonymousId ||
\* this._anonymousId
BuildBaseEvent(type, opts) ==
    [type |-> type,
     userId |-> IF opts.userId # NoUser THEN opts.userId ELSE userId,
     anonymousId |-> IF opts.anonymousId # NoAnon THEN opts.anonymousId ELSE anonymousId,
     given |-> opts]

\* identify: if (!userId && this._userId) userId = this._userId
IdentifyUser(u, cur) == IF u = NoUser THEN cur ELSE u

\* variant of MergeTraits that replaces the stored traits
MergeTraits_Replace(old, new) == new

\* identify: { ...this._traits, ...traits }
MergeTraits(old, new) == [k \in TraitKeys |-> IF new[k] # Absent THEN new[k] ELSE old[k]]

\* variant of AfterReset that keeps the anonymous id
AfterReset_KeepsAnon(anon) ==
    [userId |-> NoUser, traits |-> NoTraits, anonymousId |-> anon]

\* reset: the identity state it leaves
AfterReset(anon) ==
    [userId |-> NoUser, traits |-> NoTraits, anonymousId |-> Uuid(anon[2] + 1)]

\* user()
User == [userId |-> userId, anonymousId |-> anonymousId, traits |-> traits]

\* ---- construction -----------------------------------------------------------
\* new Queue(queueConfig)
QueueNew ==
    /\ queue = <<>>
    /\ isFlushing = FALSE
    /\ flushTimer = TRUE
    /\ inflight = <<>>
    /\ nextId = 1
    /\ calls = 0
    /\ fate = [e \in EventIds |-> "none"]
    /\ requeued = {}
    /\ destroyedAt = 0
    /\ fetchFns = {}
    /\ sends = [e \in EventIds |-> 0]
    /\ flushCalls = 0
    /\ awaited = NoCall

\* this.loadPlugins() in the constructor, up to its first await: the list is
\* sorted and the load() of the first plugin is called
LoadPlugins(list) ==
    /\ sortedPlugins = SortByType(list)
    /\ loadPos = IF list = <<>> THEN 0 ELSE 1
    /\ isReady = (list = <<>>)
    /\ plugins = <<>>
    /\ loadSt = [p \in AllPluginNames |->
                   IF list # <<>> /\ p = SortByType(list)[1] THEN "pending" ELSE "none"]
    /\ registered = list
    /\ loads = IF list = <<>> THEN <<>> ELSE <<SortByType(list)[1]>>
    /\ procs = [c \in 1..MaxCalls |-> NoProc]
    /\ ready = <<>>
    /\ pushed = <<>>
    /\ built = [e \in EventIds |-> NoEvent]

\* the identity the constructor finds: a new anonymous id, and the user id
\* and traits of the storage
NewIdentity(u, t) ==
    /\ userId = u
    /\ traits = t
    /\ anonymousId = Uuid(0)

Init ==
    /\ config \in QueueConfig
    /\ QueueNew
    /\ customFetch = FALSE
    /\ LoadPlugins(<<>>)
    /\ NewIdentity(NoUser, NoTraits)

\* ---- operations ----------------------------------------------------------
\* variant of Enqueue that checks the queue size before the flush threshold
Enqueue_EvictFirst(e) ==
    /\ LET q1 == Append(queue, NewItem(e))
           r == AutoFlush(isFlushing, Evict(q1), inflight)
       IN /\ queue' = r.queue
          /\ isFlushing' = r.isFlushing
          /\ inflight' = r.inflight
          /\ calls' = IF r.started THEN calls + 1 ELSE calls
          /\ fetchFns' = Fetches(r.started)
          /\ sends' = Sends(r.started, r.queue, r.inflight)
          /\ fate' = SetFate(SetFate(fate, {e}, "live"), Evicted(q1), "evicted")
    /\ UNCHANGED <<config, flushTimer, requeued, destroyedAt>>

Enqueue(e) ==
    /\ LET q1 == Append(queue, NewItem(e))
           r == AutoFlush(isFlushing, q1, inflight)
       IN /\ queue' = Evict(r.queue)
          /\ isFlushing' = r.isFlushing
          /\ inflight' = r.inflight
          /\ calls' = IF r.started THEN calls + 1 ELSE calls
          /\ fetchFns' = Fetches(r.started)
          /\ sends' = Sends(r.started, Evict(r.queue), r.inflight)
          /\ fate' = SetFate(SetFate(fate, {e}, "live"), Evicted(r.queue), "evicted")
    /\ UNCHANGED <<config, flushTimer, requeued, destroyedAt>>

PushOp ==
    /\ nextId <= MaxPush
    /\ Enqueue(nextId)
    /\ nextId' = nextId + 1
    /\ UNCHANGED facade

FlushOp ==
    /\ LET r == FlushStart(isFlushing, queue, inflight)
       IN /\ queue' = r.queue
          /\ isFlushing' = r.isFlushing
          /\ inflight' = r.inflight
          /\ calls' = IF r.started THEN calls + 1 ELSE calls
          /\ fetchFns' = Fetches(r.started)
          /\ sends' = Sends(r.started, r.queue, r.inflight)
    /\ UNCHANGED <<config, flushTimer, nextId, fate, requeued, destroyedAt>>
    /\ UNCHANGED facade

SettleOp(i, outcome) ==
    /\ i \in 1..Len(inflight)
    /\ LET batch == inflight[i]
       IN IF ~Failed(outcome)
          THEN /\ queue' = queue
               /\ fate' = SetFate(fate, Ids(batch), "sent")
               /\ requeued' = {}
          ELSE /\ queue' = Retry(queue, batch)
               /\ fate' = SetFate(fate, Dropped(batch), "dropped")
               /\ requeued' = IF Dropped(batch) = {} THEN Ids(batch) ELSE {}
    /\ inflight' = RemoveAt(inflight, i)
    /\ isFlushing' = FlushingAfter(outcome)
    /\ sends' = Sends(FALSE, queue', inflight')
    /\ UNCHANGED <<config, flushTimer, nextId, calls, destroyedAt, fetchFns>>
    /\ UNCHANGED facade

Push == PushOp /\ UNCHANGED caller

Flush == FlushOp /\ UNCHANGED caller

Tick == TimerFires(flushTimer) /\ FlushOp /\ UNCHANGED caller

Settle == \E i \in 1..Len(inflight), o \in Outcomes : SettleOp(i, o) /\ UNCHANGED caller

StopFlushInterval ==
    /\ flushTimer' = FALSE
    /\ UNCHANGED <<config, queue, isFlushing, inflight, nextId, calls, fate,
                   requeued, destroyedAt, flushCalls, awaited, fetchFns, sends>>
    /\ UNCHANGED facade

Clear ==
    /\ queue' = <<>>
    /\ fate' = SetFate(fate, Ids(queue), "cleared")
    /\ sends' = Sends(FALSE, <<>>, inflight)
    /\ UNCHANGED <<config, isFlushing, flushTimer, inflight, nextId, calls,
                   requeued, destroyedAt, flushCalls, awaited, fetchFns>>
    /\ UNCHANGED facade

DestroyOp ==
    /\ flushTimer' = FALSE
    /\ LET r == FlushStart(isFlushing, queue, inflight)
       IN /\ isFlushing' = r.isFlushing
          /\ inflight' = r.inflight
          /\ calls' = IF r.started THEN calls + 1 ELSE calls
          /\ fetchFns' = Fetches(r.started)
          /\ sends' = Sends(r.started, <<>>, r.inflight)
          /\ queue' = <<>>
          /\ fate' = SetFate(fate, Ids(r.queue), "cleared")
    /\ destroyedAt' = nextId
    /\ UNCHANGED <<config, nextId, requeued, flushCalls, awaited>>

Destroy == DestroyOp /\ UNCHANGED facade

Next ==
    \/ Push
    \/ Flush
    \/ Tick
    \/ Settle
    \/ StopFlushInterval
    \/ Clear
    \/ Destroy

Spec == Init /\ [][Next]_vars

\* ---- a caller that awaits flush(): await analytics.flush() -----------------
\* variant of FlushSettles whose catch block lets a Transport exception through
FlushSettles_Rethrow(outcome) == IF outcome = "throw" THEN "rejected" ELSE "resolved"

\* The promise of flush() once its send has settled: try, catch and finally
\* end normally for every outcome of sendBatch.
FlushSettles(outcome) == "resolved"

\* The promise of flush() resolves at once when the guard returns early, and
\* otherwise when the send it started has settled. The caller makes its next
\* call after the promise of the previous one has resolved.
AwaitFlush ==
    /\ awaited.st # "pending"
    /\ flushCalls < MaxFlushCalls
    /\ FlushOp
    /\ flushCalls' = flushCalls + 1
    /\ awaited' = [st |-> IF calls' > calls THEN "pending" ELSE "resolved",
                   snap |-> Buffered,
                   next |-> nextId,
                   pos |-> IF calls' > calls THEN Len(inflight') ELSE 0]

AwaitSettle(i, outcome) ==
    /\ SettleOp(i, outcome)
    /\ flushCalls' = flushCalls
    /\ awaited' = IF awaited.st # "pending" THEN awaited
                  ELSE IF i = awaited.pos
                       THEN [awaited EXCEPT !.st = FlushSettles(outcome), !.pos = 0]
                  ELSE IF i < awaited.pos THEN [awaited EXCEPT !.pos = @ - 1]
                  ELSE awaited

\* ---- scenario: one event, awaited flush() calls, a Transport that fails ----
PushOnce == nextId = 1 /\ Push

FlushAgain == nextId > 1 /\ AwaitFlush

SettleFail == \E i \in 1..Len(inflight), o \in Outcomes \ {"ok"} : AwaitSettle(i, o)

NextRetry ==
    \/ PushOnce
    \/ FlushAgain
    \/ SettleFail

SpecRetry == Init /\ [][NextRetry]_vars

\* ---- scenario: pushes, ticks, awaited flush() calls, a Transport that succeeds
SettleOk == \E i \in 1..Len(inflight) : AwaitSettle(i, "ok")

NextAwait ==
    \/ Push
    \/ Tick
    \/ AwaitFlush
    \/ SettleOk

SpecAwait == Init /\ [][NextAwait]_vars

\* ---- scenario: pushes, ticks, awaited flush() calls, any Transport outcome ---
SettleAny == \E i \in 1..Len(inflight), o \in Outcomes : AwaitSettle(i, o)

NextCaller ==
    \/ Push
    \/ Tick
    \/ AwaitFlush
    \/ SettleAny

SpecCaller == Init /\ [][NextCaller]_vars

\* ---- the facade: plugins and the event pipeline ------------------------------
queueSide == <<config, queue, isFlushing, flushTimer, inflight, calls, fate,
               requeued, destroyedAt, fetchFns, sends>>

\* variant of Proceeds that lets an empty result through
Proceeds_Always(v) == TRUE

\* if (!processedEvent) break, and if (processedEvent) before queue.push
Proceeds(v) == v.live

\* variant of HandlerResult in which a throwing handler loses the event
HandlerResult_ThrowDrops(v, p, res) ==
    IF res = "ok" THEN [v EXCEPT !.by = Append(@, p)] ELSE [v EXCEPT !.live = FALSE]

\* processedEvent after the awaited handler of plugin p: the handler's result
\* when it returns, unchanged when it throws (the catch only logs)
HandlerResult(v, p, res) ==
    CASE res = "ok" -> [v EXCEPT !.by = Append(@, p)]
      [] res = "null" -> [v EXCEPT !.live = FALSE]
      [] res = "throw" -> v

\* the next entry of the live Map iterator that has a handler for the kind
NextHandler(pos, kind, pl) ==
    LET S == {j \in (pos + 1)..Len(pl) : Handles(pl[j], kind)}
    IN IF S = {} THEN 0 ELSE CHOOSE j \in S : \A k \in S : j <= k

\* the for loop of processEvent from the iterator position of pr up to the
\* next handler call (its await) or to the return
Loop(pr, pl, ld) ==
    IF ~Proceeds(pr.value) THEN [pr EXCEPT !.st = "returned"]
    ELSE LET j == NextHandler(pr.pos, pr.kind, pl)
         IN IF j = 0 THEN [pr EXCEPT !.st = "returned", !.pos = Len(pl)]
            ELSE [pr EXCEPT !.st = "awaiting", !.pos = j,
                            !.trail = Append(@, [p |-> pl[j], got |-> pr.value.by,
                                                 ld |-> ld[pl[j]], res |-> "pending"])]

\* the rest of track()/page() once processEvent has returned pr
Finish(c, pr) ==
    /\ procs' = [procs EXCEPT ![c] = [pr EXCEPT !.st = "done"]]
    /\ IF Proceeds(pr.value)
       THEN Enqueue(c) /\ pushed' = Append(pushed, c)
       ELSE UNCHANGED queueSide /\ UNCHANGED pushed

\* analytics.track(...) / analytics.page(...), not awaited by the caller: the
\* call runs processEvent up to its first await
\* a facade call once its event ev is built: processEvent up to its first
\* await
Issue(kind, ev) ==
    /\ nextId <= MaxCalls
    /\ LET pr == Loop([NoProc EXCEPT !.kind = kind], plugins, loadSt)
       IN IF pr.st = "returned"
          THEN /\ procs' = [procs EXCEPT ![nextId] = [pr EXCEPT !.st = "ready"]]
               /\ ready' = Append(ready, nextId)
          ELSE /\ procs' = [procs EXCEPT ![nextId] = pr]
               /\ ready' = ready
    /\ built' = [built EXCEPT ![nextId] = ev]
    /\ nextId' = nextId + 1
    /\ UNCHANGED queueSide
    /\ UNCHANGED <<flushCalls, awaited, customFetch, sortedPlugins, loadPos,
                   isReady, plugins, loadSt, pushed>>
    /\ UNCHANGED pluginLog

Call(kind) ==
    /\ Issue(kind, BuildBaseEvent(kind, NoOptions))
    /\ UNCHANGED identity

\* a call whose processEvent met no handler resumes after its await and pushes
Resume ==
    /\ ready # <<>>
    /\ ready' = Tail(ready)
    /\ Finish(Head(ready), procs[Head(ready)])
    /\ UNCHANGED <<nextId, flushCalls, awaited, customFetch, sortedPlugins,
                   loadPos, isReady, plugins, loadSt>>
    /\ UNCHANGED <<userId, traits, anonymousId, built>>
    /\ UNCHANGED pluginLog

\* the awaited handler of call c settles; processEvent goes on to the next
\* handler or returns, and then the call pushes
HandlerSettles(c, res) ==
    /\ ready = <<>>
    /\ procs[c].st = "awaiting"
    /\ LET cur == procs[c]
           p == cur.trail[Len(cur.trail)].p
           pr0 == [cur EXCEPT !.value = HandlerResult(cur.value, p, res),
                              !.trail[Len(cur.trail)].res = res]
           pr == Loop(pr0, plugins, loadSt)
       IN IF pr.st = "returned"
          THEN Finish(c, pr)
          ELSE /\ procs' = [procs EXCEPT ![c] = pr]
               /\ UNCHANGED queueSide
               /\ UNCHANGED pushed
    /\ UNCHANGED <<nextId, flushCalls, awaited, customFetch, sortedPlugins,
                   loadPos, isReady, plugins, loadSt, ready>>
    /\ UNCHANGED <<userId, traits, anonymousId, built>>
    /\ UNCHANGED pluginLog

\* the load() awaited by loadPlugins settles: the plugin is added on success,
\* then the loop calls the load() of the next plugin or sets isReady
LoadSettles(res) ==
    /\ ready = <<>>
    /\ ~isReady
    /\ LET p == sortedPlugins[loadPos]
       IN /\ plugins' = IF res = "ok" THEN Append(plugins, p) ELSE plugins
          /\ IF loadPos < Len(sortedPlugins)
             THEN /\ loadSt' = [loadSt EXCEPT ![p] = res,
                                              ![sortedPlugins[loadPos + 1]] = "pending"]
                  /\ loads' = Append(loads, sortedPlugins[loadPos + 1])
                  /\ loadPos' = loadPos + 1
                  /\ isReady' = FALSE
             ELSE /\ loadSt' = [loadSt EXCEPT ![p] = res]
                  /\ loads' = loads
                  /\ loadPos' = loadPos
                  /\ isReady' = TRUE
    /\ registered' = registered
    /\ UNCHANGED queueSide
    /\ UNCHANGED <<nextId, flushCalls, awaited, customFetch, sortedPlugins,
                   procs, ready, pushed>>
    /\ UNCHANGED <<userId, traits, anonymousId, built>>

\* analytics.register(plugin) with a plugin that is not in config.plugins
Register(p) ==
    /\ p \notin Range(sortedPlugins)
    /\ loadSt[p] = "none"
    /\ plugins' = Append(plugins, p)
    /\ loadSt' = [loadSt EXCEPT ![p] = "pending"]
    /\ registered' = Append(registered, p)
    /\ loads' = Append(loads, p)
    /\ UNCHANGED queueSide
    /\ UNCHANGED <<nextId, flushCalls, awaited, customFetch, sortedPlugins,
                   loadPos, isReady, procs, ready, pushed>>
    /\ UNCHANGED <<userId, traits, anonymousId, built>>

\* the load() that register() called and did not await settles
RegisteredLoadSettles(p, res) ==
    /\ ready = <<>>
    /\ p \notin Range(sortedPlugins)
    /\ loadSt[p] = "pending"
    /\ loadSt' = [loadSt EXCEPT ![p] = res]
    /\ UNCHANGED queueSide
    /\ UNCHANGED <<nextId, flushCalls, awaited, customFetch, sortedPlugins,
                   loadPos, isReady, plugins, procs, ready, pushed>>
    /\ UNCHANGED <<userId, traits, anonymousId, built>>
    /\ UNCHANGED pluginLog

PipelineConfig ==
    [flushAt |-> MaxFlushAt, maxQueueSize |-> MaxQueueSize, retryAttempts |-> MaxRetry]

InitPipeline ==
    /\ config = PipelineConfig
    /\ QueueNew
    /\ customFetch = FALSE
    /\ NewIdentity(NoUser, NoTraits)
    /\ \E list \in PluginLists : LoadPlugins(list)

CallAny == \E kind \in Kinds : Call(kind)

HandlerSettlesAny == \E c \in 1..MaxCalls, res \in HandlerResults : HandlerSettles(c, res)

LoadSettlesAny == \E res \in LoadResults : LoadSettles(res)

RegisterAny == \E p \in PluginNames : Register(p)

RegisteredLoadSettlesAny ==
    \E p \in PluginNames, res \in LoadResults : RegisteredLoadSettles(p, res)

\* the plugins of config.plugins, handlers that return, fail or veto
NextPipeline ==
    \/ CallAny
    \/ Resume
    \/ HandlerSettlesAny
    \/ LoadSettlesAny

SpecPipeline == InitPipeline /\ [][NextPipeline]_vars

\* ---- scenario: plugins added with register(), handlers that return ----------
HandlerReturns == \E c \in 1..MaxCalls : HandlerSettles(c, "ok")

NextRegister ==
    \/ CallAny
    \/ Resume
    \/ HandlerReturns
    \/ LoadSettlesAny
    \/ RegisterAny
    \/ RegisteredLoadSettlesAny

SpecRegister == InitPipeline /\ [][NextRegister]_vars

\* ---- scenario: two plugins of one stage, given in config.plugins or added ----
\* ---- with register() ---------------------------------------------------------
StageNames == {"validate", "consent"}

\* config.plugins: the lists without repetition over the names S
ListsOver(S) ==
    {l \in UNION {[1..n -> S] : n \in 0..Cardinality(S)} :
        \A i, j \in 1..Len(l) : i # j => l[i] # l[j]}

StageLists == ListsOver(StageNames)

InitStage ==
    /\ config = PipelineConfig
    /\ QueueNew
    /\ customFetch = FALSE
    /\ NewIdentity(NoUser, NoTraits)
    /\ \E list \in StageLists : LoadPlugins(list)

RegisterStage == \E p \in StageNames : Register(p)

RegisteredLoadSettlesStage ==
    \E p \in StageNames, res \in LoadResults : RegisteredLoadSettles(p, res)

NextStage ==
    \/ Call("track")
    \/ Resume
    \/ HandlerSettlesAny
    \/ LoadSettlesAny
    \/ RegisterStage
    \/ RegisteredLoadSettlesStage

SpecStage == InitStage /\ [][NextStage]_vars

\* ---- scenario: facade calls and analytics.destroy() ---------------------------
\* analytics.destroy(), called once: queue.destroy(), then plugins.clear().
\* The Map iterator of a processEvent that is suspended in a handler goes on
\* with the entries set after the clear().
AnalyticsDestroy ==
    /\ destroyedAt = 0
    /\ DestroyOp
    /\ plugins' = <<>>
    /\ procs' = [c \in 1..MaxCalls |-> [procs[c] EXCEPT !.pos = 0]]
    /\ UNCHANGED <<customFetch, sortedPlugins, loadPos, isReady, loadSt, ready,
                   pushed, userId, traits, anonymousId, built>>
    /\ UNCHANGED pluginLog

\* the in-flight send settles, once the pending microtasks have run
SettleLater == ready = <<>> /\ Settle

InitDestroy ==
    /\ config \in {c \in QueueConfig :
                     c.maxQueueSize = MaxQueueSize /\ c.retryAttempts = MaxRetry}
    /\ QueueNew
    /\ customFetch = FALSE
    /\ NewIdentity(NoUser, NoTraits)
    /\ \E list \in {<<>>, <<"validate">>} : LoadPlugins(list)

NextDestroy ==
    \/ Call("track")
    \/ Resume
    \/ HandlerSettlesAny
    \/ LoadSettlesAny
    \/ SettleLater
    \/ AnalyticsDestroy

SpecDestroy == InitDestroy /\ [][NextDestroy]_vars

\* ---- scenario: identify, alias, reset and the events built after them --------
\* analytics.identify(u, t, opts)
Identify(u, t, opts) ==
    /\ LET uid == IdentifyUser(u, userId)
       IN /\ userId' = IF uid # NoUser THEN uid ELSE userId
          /\ traits' = MergeTraits(traits, t)
          /\ Issue("identify", [BuildBaseEvent("identify", opts) EXCEPT !.userId = uid])
    /\ UNCHANGED anonymousId

\* analytics.alias(u, previousId, opts): the event is built before _userId
\* is set, and the base event is spread over its userId
Alias(u, opts) ==
    /\ Issue("alias", BuildBaseEvent("alias", opts))
    /\ userId' = u
    /\ UNCHANGED <<traits, anonymousId>>

\* analytics.track(name, properties, opts) / analytics.page(...)
Track(kind, opts) ==
    /\ Issue(kind, BuildBaseEvent(kind, opts))
    /\ UNCHANGED identity

\* analytics.reset()
Reset ==
    /\ anonymousId[2] < MaxReset
    /\ userId' = AfterReset(anonymousId).userId
    /\ traits' = AfterReset(anonymousId).traits
    /\ anonymousId' = AfterReset(anonymousId).anonymousId
    /\ UNCHANGED queueSide
    /\ UNCHANGED <<nextId, flushCalls, awaited, customFetch, sortedPlugins, loadPos,
                   isReady, plugins, loadSt, procs, ready, pushed, built>>
    /\ UNCHANGED pluginLog

InitIdentity ==
    /\ config = PipelineConfig
    /\ QueueNew
    /\ customFetch = FALSE
    /\ LoadPlugins(<<>>)
    /\ \E u \in UserIds \cup {NoUser} : NewIdentity(u, NoTraits)

IdentifyAny ==
    \E u \in UserIds \cup {NoUser}, t \in TraitUpdates, opts \in Options :
        Identify(u, t, opts)

AliasAny == \E u \in UserIds, opts \in Options : Alias(u, opts)

TrackAny == \E opts \in Options : Track("track", opts)

NextIdentity ==
    \/ IdentifyAny
    \/ AliasAny
    \/ TrackAny
    \/ Reset
    \/ Resume

SpecIdentity == InitIdentity /\ [][NextIdentity]_vars

\* ---- scenario: an Analytics instance configured with or without customFetch -
InitFetch ==
    /\ config \in QueueConfig
    /\ QueueNew
    /\ customFetch \in BOOLEAN
    /\ LoadPlugins(<<>>)
    /\ NewIdentity(NoUser, NoTraits)

NextFetch ==
    \/ Push
    \/ Tick
    \/ Settle

SpecFetch == InitFetch /\ [][NextFetch]_vars

\* ---- scenario: pushes, flush() calls and sends that settle -------------------
NextRun ==
    \/ Push
    \/ Flush
    \/ Settle

SpecRun == Init /\ [][NextRun]_vars

\* every Transport call eventually settles
SpecLive == SpecRun /\ WF_vars(Settle)

\* ---- scenario: pushes, flush() and clear() calls, sends that settle ----------
NextClear ==
    \/ Push
    \/ Flush
    \/ Settle
    \/ Clear

SpecClear == Init /\ [][NextClear]_vars

\* ---- scenario: a queue that is not destroyed and whose timer keeps running ---
NextResolve ==
    \/ Push
    \/ Tick
    \/ Settle
    \/ Clear

SpecResolve == Init /\ [][NextResolve]_vars

\* the interval keeps firing and every Transport call eventually settles
SpecResolveLive == SpecResolve /\ WF_vars(Tick) /\ WF_vars(Settle)

\* ---- scenario: pushes only (no explicit flush(), no timer tick) -------------
NextPush ==
    \/ Push
    \/ Settle

SpecPush == Init /\ [][NextPush]_vars

\* ==========================================================================
\* Claims
\* ==========================================================================

\* C1: in every reachable state the number of buffered items is at most
\* maxQueueSize.
C1_QueueBound == Len(queue) <= config.maxQueueSize

\* C2: at most one Transport call is in flight at any time; a flush() made
\* while a send is in flight (explicit, timer-triggered or made by push)
\* starts no Transport call and leaves the buffer as it found it (for push:
\* the buffer with the new event appended and the eviction applied).
C2_FlushMutualExclusion ==
    /\ [](Len(inflight) <= 1)
    /\ [][/\ (inflight # <<>>) => (calls' = calls /\ Len(inflight') <= Len(inflight))
          /\ ((Flush \/ Tick) /\ inflight # <<>>) => UNCHANGED <<queue, inflight>>
          /\ (Push /\ inflight # <<>>) =>
                 /\ inflight' = inflight
                 /\ queue' = Evict(Append(queue, NewItem(nextId)))]_vars

\* C2 witness: a send is in flight and the buffer has reached the flush
\* threshold, so the last push called flush() during the send.
C2_Witness ==
    /\ Len(inflight) = 1
    /\ config.flushAt >= 1
    /\ Len(queue) >= config.flushAt

\* A step that settles the send of inflight[i] as a failure.
FailStep(i) == SettleOp(i, "notok") \/ SettleOp(i, "throw")

\* Every item of the batch has, with this failure, failed fewer than
\* retryAttempts times.
BelowCeiling(batch) ==
    \A k \in 1..Len(batch) : batch[k].attempts + 1 < config.retryAttempts

Places(q, e) == {j \in 1..Len(q) : q[j].id = e}

\* A step that hands a new batch to Transport.
StartsBatch == calls' = calls + 1

NewBatch == inflight'[Len(inflight')]

\* C3 (first half, kept by the amended claim): when a flush fails and every
\* item of its batch has failed fewer than retryAttempts times, then once the
\* flush settles every item of the batch is in the buffer exactly once, with
\* attempts incremented by exactly 1.
C3_BackInBuffer ==
    \A i \in 1..Len(inflight) :
        (FailStep(i) /\ BelowCeiling(inflight[i])) =>
            \A k \in 1..Len(inflight[i]) :
                /\ Cardinality(Places(queue', inflight[i][k].id)) = 1
                /\ \A j \in Places(queue', inflight[i][k].id) :
                       queue'[j].attempts = inflight[i][k].attempts + 1

\* C3 as claimed: ... and every such item is included in the next batch
\* handed to Transport.
C3_RetryBelowCeiling ==
    [][/\ C3_BackInBuffer
       /\ StartsBatch => requeued \subseteq Ids(NewBatch)]_vars

\* C3 as amended: ... and every such item that is still buffered when the next
\* flush starts is included in the batch of that flush; until then it leaves
\* the buffer only by clear(), by destroy() or as the head evicted by a push.
C3_RetryBelowCeilingAmended ==
    [][/\ C3_BackInBuffer
       /\ StartsBatch => (requeued \cap Ids(queue)) \subseteq Ids(NewBatch)
       /\ \A e \in requeued \cap Ids(queue) :
              e \in Ids(queue') \/ e \in BatchIds(inflight')
                 \/ Clear \/ Destroy \/ (Push /\ e = queue[1].id)]_vars

\* C3 witness: the items a failed send put back are all in the batch of the
\* next send, behind nothing older, with their attempts counted.
C3_Witness ==
    /\ requeued # {}
    /\ Len(inflight) = 1
    /\ requeued \subseteq Ids(inflight[1])
    /\ \E k \in 1..Len(inflight[1]) : inflight[1][k].attempts = 1

\* Every item of the batch is, with this failure, at its retryAttempts-th
\* failed send.
AtCeiling(batch) ==
    \A k \in 1..Len(batch) : batch[k].attempts + 1 = config.retryAttempts

C5_RetryCount ==
    (/\ config.flushAt >= 2
     /\ config.maxQueueSize >= 1
     /\ nextId = 2
     /\ flushCalls = config.retryAttempts + 1
     /\ awaited.st = "resolved")
    => (queue = <<>> /\ calls = config.retryAttempts + 1)

\* C6: if a caller awaits flush() and every Transport call succeeds, then
\* when the promise has resolved every event that was pending (buffered or in
\* flight) when flush() was called has been handed to a Transport call that
\* has completed, and size() is 0 if nothing was pushed meanwhile.
C6_AwaitedFlushDelivers ==
    awaited.st = "resolved" =>
        /\ \A e \in awaited.snap : fate[e] = "sent"
        /\ nextId = awaited.next => queue = <<>>

\* C7: destroy() on a queue holding k >= 1 buffered events, Idle or Flushing,
\* starts exactly one final Transport call whose batch is those k events; if
\* that call succeeds size() is 0 afterwards, and none of the k events is
\* discarded without a send attempt.
C7_DestroySendsPending ==
    [][(Destroy /\ queue # <<>>) =>
           /\ StartsBatch
           /\ Len(inflight') = Len(inflight) + 1
           /\ NewBatch = queue
           /\ queue' = <<>>
           /\ \A e \in Ids(queue) : fate'[e] # "cleared"]_vars

\* C8: after destroy() has returned, with no push issued afterwards, size()
\* is 0 and stays 0, whatever the outcome of the final flush or of a send
\* that was already in flight: the events of a failed send are not put back.
C8_DestroyIsFinal ==
    (destroyedAt # 0 /\ nextId = destroyedAt) => queue = <<>>

\* C9: size() <= maxQueueSize immediately after each push returns, for every
\* configuration and every interleaving with flushes and Transport outcomes.
C9_PushPostcondition ==
    [][Push => Len(queue') <= config.maxQueueSize]_vars

\* C10 as claimed: from an empty Idle queue, with no explicit flush() and no
\* timer tick, after exactly flushAt pushes exactly one Transport call has
\* been started, for every flushAt >= 1 and any maxQueueSize.
C10_ThresholdAutoFlush ==
    (config.flushAt >= 1 /\ nextId - 1 = config.flushAt) => calls = 1

\* C10 as amended: ... for every flushAt >= 1 and every maxQueueSize >=
\* flushAt - 1 (a buffer that can hold the flushAt - 1 events before the last).
C10_ThresholdAutoFlushAmended ==
    (/\ config.flushAt >= 1
     /\ config.maxQueueSize >= config.flushAt - 1
     /\ nextId - 1 = config.flushAt)
    => calls = 1

\* C10 witness: flushAt >= 2 events were pushed into a buffer of exactly
\* flushAt - 1 places and the last push started the one Transport call, with
\* the whole buffer as its batch.
C10_Witness ==
    /\ config.flushAt >= 2
    /\ config.maxQueueSize = config.flushAt - 1
    /\ nextId - 1 = config.flushAt
    /\ calls = 1
    /\ Len(inflight) = 1
    /\ Len(inflight[1]) = config.flushAt

\* C11: flush() on an empty buffer performs zero Transport calls and does not
\* enter Flushing; every batch handed to Transport holds at least one event.
C11_NoEmptyBatch ==
    /\ [](\A i \in 1..Len(inflight) : Len(inflight[i]) >= 1)
    /\ [][((AwaitFlush \/ Tick) /\ queue = <<>>) =>
              UNCHANGED <<calls, isFlushing, inflight, queue>>]_vars

\* C11 witness: an awaited flush() on the empty buffer of an Idle queue has
\* resolved and no Transport call was ever started.
C11_Witness ==
    /\ flushCalls >= 1
    /\ awaited.st = "resolved"
    /\ calls = 0
    /\ ~isFlushing
    /\ queue = <<>>

FirstEvents(n) == [i \in 1..n |-> NewItem(i)]

\* C12: a flush that starts from Idle (explicit, timer-triggered or made by
\* push) hands Transport exactly the buffer content of that instant, in
\* buffer order, and leaves the buffer empty; pushing flushAt events into an
\* empty Idle queue that never sent, none of them evicted, produces one
\* Transport call whose batch is exactly those events in push order.
C12_BatchContent ==
    [][/\ ((Flush \/ Tick) /\ ~isFlushing /\ queue # <<>>) =>
              /\ StartsBatch
              /\ inflight' = Append(inflight, queue)
              /\ queue' = <<>>
       /\ (Push /\ StartsBatch) =>
              /\ inflight' = Append(inflight, Append(queue, NewItem(nextId)))
              /\ queue' = <<>>
       /\ (/\ Push
           /\ calls = 0
           /\ nextId = config.flushAt
           /\ queue = FirstEvents(nextId - 1)) =>
              /\ calls' = 1
              /\ inflight' = <<FirstEvents(config.flushAt)>>
              /\ queue' = <<>>]_vars

\* C12 witness: flushAt = 3 events were pushed into the empty Idle queue and
\* the one Transport call holds the three in push order.
C12_Witness ==
    /\ config.flushAt = 3
    /\ calls = 1
    /\ inflight = <<FirstEvents(3)>>
    /\ queue = <<>>

\* C19: the promise returned by flush() never rejects and push() is accepted
\* in every state, whether Transport throws or answers not ok; a failed send
\* changes nothing but the retry bookkeeping: attempts counted, survivors
\* put back behind the buffer, the others dropped, the queue Idle again.
C19_FailureNotSurfaced ==
    /\ [](awaited.st # "rejected")
    /\ [](nextId <= MaxPush => ENABLED Push)
    /\ [][\A i \in 1..Len(inflight) :
            FailStep(i) =>
                /\ queue' = queue \o SelectSeq(Bump(inflight[i]), Keeps)
                /\ \A e \in EventIds :
                       fate'[e] = IF e \in Ids(inflight[i]) \ Ids(queue')
                                  THEN "dropped" ELSE fate[e]
                /\ ~isFlushing'
                /\ UNCHANGED <<config, flushTimer, nextId, calls>>]_vars

\* C19 witness: the send started by an awaited flush() failed, its items are
\* back in the buffer and the promise has resolved.
C19_Witness ==
    /\ awaited.st = "resolved"
    /\ awaited.snap # {}
    /\ requeued = awaited.snap
    /\ inflight = <<>>

\* C20: when the Analytics instance is configured with customFetch, every
\* batch is sent through customFetch and the global fetch is never called.
C20_CustomFetchHonoured ==
    customFetch => fetchFns \subseteq {"customFetch"}

Rank(p) == typeOrder(PluginType(p))

Trail(c) == procs[c].trail

Count(s, x) == Cardinality({i \in 1..Len(s) : s[i] = x})

\* C13: for every event the handlers run in non-decreasing stage rank
\* before(0), enrichment(1), destination(2), after(3), whatever the order in
\* which the plugins were given in config.plugins or added with register().
C13_StageOrder ==
    \A c \in 1..MaxCalls :
        \A i, j \in 1..Len(Trail(c)) :
            i < j => Rank(Trail(c)[i].p) <= Rank(Trail(c)[j].p)

Vetoed(c) == \E k \in 1..Len(Trail(c)) : Trail(c)[k].res = "null"

\* C14: once a handler has returned null for an event no later handler is
\* invoked for it and Queue.push is never called with it; an event none of
\* whose handlers returned null is pushed exactly once when its call is over,
\* and no event is pushed twice.
C14_Veto ==
    \A c \in 1..MaxCalls :
        /\ \A k \in 1..Len(Trail(c)) :
               Trail(c)[k].res = "null" =>
                   /\ k = Len(Trail(c))
                   /\ procs[c].st = "done"
                   /\ Count(pushed, c) = 0
        /\ (procs[c].st = "done" /\ ~Vetoed(c)) => Count(pushed, c) = 1
        /\ Count(pushed, c) <= 1

\* C14 witness: a handler vetoed an event while a later plugin with a handler
\* for its kind was active; the call is over and nothing was pushed.
C14_Witness ==
    \E c \in 1..MaxCalls :
        /\ procs[c].st = "done"
        /\ Vetoed(c)
        /\ NextHandler(procs[c].pos, procs[c].kind, plugins) # 0
        /\ pushed = <<>>

\* the plugins whose handlers returned an event before the k-th invocation
OkBefore(t, k) ==
    LET Ok(e) == e.res = "ok"
        sel == SelectSeq(SubSeq(t, 1, k - 1), Ok)
    IN [i \in 1..Len(sel) |-> sel[i].p]

Threw(c) == \E k \in 1..Len(Trail(c)) : Trail(c)[k].res = "throw"

\* C15: a handler that throws or rejects does not fail the facade call; every
\* handler receives the value produced by the last handler that returned one
\* (the value is unchanged by a throw), and the event is pushed when the call
\* is over unless a handler vetoed it.
C15_FailureIsolation ==
    /\ [](\A c \in 1..MaxCalls :
            /\ \A k \in 1..Len(Trail(c)) : Trail(c)[k].got = OkBefore(Trail(c), k)
            /\ (procs[c].st = "done" /\ Threw(c) /\ ~Vetoed(c)) =>
                   /\ Count(pushed, c) = 1
                   /\ procs[c].value = [live |-> TRUE,
                                        by |-> OkBefore(Trail(c), Len(Trail(c)) + 1)])
    /\ [][\A c \in 1..MaxCalls :
            HandlerSettles(c, "throw") =>
                /\ procs'[c].st \in {"awaiting", "done"}
                /\ procs'[c].value = procs[c].value]_vars

\* C15 witness: the first handler returned an event, the second threw, the
\* third received the first one's event, and the event was pushed.
C15_Witness ==
    \E c \in 1..MaxCalls :
        /\ procs[c].st = "done"
        /\ Len(Trail(c)) = 3
        /\ Trail(c)[1].res = "ok"
        /\ Trail(c)[2].res = "throw"
        /\ Trail(c)[3].got = <<Trail(c)[1].p>>
        /\ Count(pushed, c) = 1

\* C16: no handler of a plugin is invoked before that plugin's load() has
\* completed successfully, for config plugins and for registered plugins.
C16_LoadBeforeParticipation ==
    \A c \in 1..MaxCalls :
        \A k \in 1..Len(Trail(c)) : Trail(c)[k].ld = "ok"

\* C17: a plugin whose load() failed is not in the active set and none of its
\* handlers is invoked; the failure does not keep the other plugins from
\* being loaded and, on success, from being active.
C17_LoadFailureExclusion ==
    /\ \A p \in PluginNames :
           loadSt[p] = "failed" =>
               /\ p \notin Range(plugins)
               /\ \A c \in 1..MaxCalls :
                      \A k \in 1..Len(Trail(c)) :
                          Trail(c)[k].p = p => Trail(c)[k].ld # "failed"
    /\ isReady =>
           \A p \in Range(sortedPlugins) :
               /\ loadSt[p] \in {"ok", "failed"}
               /\ loadSt[p] = "ok" => p \in Range(plugins)

\* C18: events enter the queue in the order in which their facade calls were
\* issued, for every interleaving of the handler completions.
C18_FacadeOrdering ==
    \A i, j \in 1..Len(pushed) : i < j => pushed[i] < pushed[j]

\* C22: while the timer is running, a tick that finds the queue Idle and
\* non-empty starts exactly one Transport call with the whole buffer, in
\* order, and leaves the buffer empty; a tick that finds the queue Flushing
\* or empty starts none and changes neither the buffer nor the flag.
C22_PeriodicFlush ==
    [][/\ (Tick /\ ~isFlushing /\ queue # <<>>) =>
              /\ calls' = calls + 1
              /\ inflight' = Append(inflight, queue)
              /\ queue' = <<>>
              /\ isFlushing'
       /\ (Tick /\ (isFlushing \/ queue = <<>>)) =>
              UNCHANGED <<calls, inflight, queue, isFlushing>>]_vars

\* C22 witness: two events were pushed below the threshold, no flush() was
\* called, and the one Transport call, started by a tick, holds both.
C22_Witness ==
    /\ config.flushAt > 2
    /\ flushCalls = 0
    /\ calls = 1
    /\ inflight = <<FirstEvents(2)>>
    /\ queue = <<>>

\* C23: once stopFlushInterval() or destroy() has stopped the timer it never
\* runs again and no tick occurs; stopFlushInterval() on a stopped timer
\* changes nothing, destroy() on a stopped timer leaves the timer stopped,
\* and both can be called in every state.
C23_TimerTeardown ==
    /\ [][(StopFlushInterval \/ Destroy) => ~flushTimer']_vars
    /\ [][~flushTimer => ~flushTimer']_vars
    /\ [](~flushTimer => ~ENABLED Tick)
    /\ [][(StopFlushInterval /\ ~flushTimer) => UNCHANGED vars]_vars
    /\ [](ENABLED StopFlushInterval /\ ENABLED Destroy)

\* C23 witness: the timer was stopped by stopFlushInterval(), an event is
\* buffered in the Idle queue and nothing was ever sent.
C23_Witness ==
    /\ ~flushTimer
    /\ destroyedAt = 0
    /\ queue # <<>>
    /\ ~isFlushing
    /\ calls = 0

\* C26: whenever the in-flight Transport call settles, with any outcome, the
\* queue is Idle after that same step, in which the retry bookkeeping is
\* done; if every Transport call eventually settles the queue never stays
\* Flushing forever, and from Idle with a non-empty buffer flush() starts a
\* new send.
C26_BackToIdle ==
    /\ [][\A i \in 1..Len(inflight), o \in Outcomes :
            SettleOp(i, o) =>
                /\ ~isFlushing'
                /\ queue' = IF Failed(o) THEN Retry(queue, inflight[i]) ELSE queue]_vars
    /\ isFlushing ~> ~isFlushing
    /\ [](~isFlushing /\ queue # <<>> => ENABLED (Flush /\ StartsBatch))

\* C26 witness: a send failed and re-queued its batch, the queue went back to
\* Idle, and a later flush has started the second send with a retried item.
C26_Witness ==
    /\ calls = 2
    /\ requeued # {}
    /\ isFlushing
    /\ Len(inflight) = 1
    /\ \E k \in 1..Len(inflight[1]) : inflight[1][k].attempts = 1

\* the items of a batch that a failure of its send leaves below the ceiling,
\* in batch order, with the failure counted
Survivors(b) ==
    LET Below(item) == item.attempts + 1 < config.retryAttempts
        surv == SelectSeq(b, Below)
    IN [k \in 1..Len(surv) |-> [id |-> surv[k].id, attempts |-> surv[k].attempts + 1]]

\* the events pushed after every event of batch b
PushedSince(b) == {e \in EventIds : e < nextId /\ \A x \in Ids(b) : e > x}

C28_RetriedFirst ==
    [][StartsBatch =>
          \A j, k \in 1..Len(NewBatch) :
              (/\ NewBatch[j].attempts >= 1
               /\ NewBatch[k].attempts = 0
               /\ NewBatch[j].id < NewBatch[k].id) => j < k]_vars

\* C29: the item a push evicts is the one that was pushed earliest among the
\* items buffered at that moment, also after failed flushes have re-queued
\* items.
C29_OldestFirstEviction ==
    [][\A e \in EventIds :
          (Push /\ fate[e] # "evicted" /\ fate'[e] = "evicted") =>
              \A x \in Ids(queue) : e <= x]_vars

\* C30: a step settles a send with a response that is not ok exactly when it
\* settles it with an exception: both count the attempt of every batch item,
\* put the survivors back and drop the others; only an ok response discards
\* the batch and puts nothing back.
C30_FailureClassification ==
    [][\A i \in 1..Len(inflight) :
          /\ SettleOp(i, "notok") <=> SettleOp(i, "throw")
          /\ SettleOp(i, "notok") =>
                 /\ queue' = queue \o Survivors(inflight[i])
                 /\ \A e \in Ids(inflight[i]) :
                        e \in Ids(queue') \/ fate'[e] = "dropped"
          /\ SettleOp(i, "ok") =>
                 /\ queue' = queue
                 /\ \A e \in Ids(inflight[i]) : fate'[e] = "sent"]_vars

\* C30 witness: the only send of the run failed and its single item is back
\* in the buffer with one attempt counted.
C30_Witness ==
    /\ calls = 1
    /\ nextId = 2
    /\ ~isFlushing
    /\ queue = <<[id |-> 1, attempts |-> 1]>>
    /\ fate[1] = "live"

\* C21: every event that has reached the queue was passed through the handler
\* of every plugin of config.plugins that loads successfully and implements
\* its kind, also an event issued right after construction.
C21_AllEventsPassPlugins ==
    \A c \in 1..MaxCalls :
        \A p \in Range(sortedPlugins) :
            (Count(pushed, c) >= 1 /\ loadSt[p] = "ok" /\ Handles(p, procs[c].kind)) =>
                \E k \in 1..Len(Trail(c)) : Trail(c)[k].p = p

\* a step in which the facade builds an event, and that event
Builds == nextId' = nextId + 1

Event == built'[nextId]

IdentifyWith(u) == \E t \in TraitUpdates, opts \in Options : Identify(u, t, opts)

AliasWith(u) == \E opts \in Options : Alias(u, opts)

C25_Reset ==
    [][/\ Reset =>
              /\ User'.userId = NoUser
              /\ User'.traits = NoTraits
              /\ User'.anonymousId # anonymousId
              /\ \A e \in EventIds : built[e].anonymousId # User'.anonymousId
              /\ UNCHANGED <<queue, inflight, built>>
       /\ (Builds /\ Event.type = "track" /\ Event.given = NoOptions) =>
              /\ Event.anonymousId = anonymousId
              /\ Event.userId = userId]_vars

\* C25 witness: an event of user u1 is in the buffer, reset() was called, and
\* the track event built after it carries the new anonymousId and no userId.
C25_Witness ==
    /\ userId = NoUser
    /\ anonymousId = Uuid(1)
    /\ built[1].userId = "u1"
    /\ built[1].anonymousId = Uuid(0)
    /\ 1 \in Ids(queue)
    /\ built[2].type = "track"
    /\ built[2].given = NoOptions
    /\ built[2].anonymousId = Uuid(1)
    /\ built[2].userId = NoUser

\* C31: with retryAttempts = 0 a failed batch is dropped outright: when its
\* first failed send settles every one of its items is dropped, none is in
\* the buffer or in flight afterwards, the events pushed meanwhile stay, and
\* no event is ever part of a second Transport call.
C31_ZeroRetry ==
    /\ [](config.retryAttempts = 0 =>
            \A e \in EventIds :
                /\ sends[e] <= 1
                /\ fate[e] = "dropped" => e \notin Buffered)
    /\ [][\A i \in 1..Len(inflight) :
            (FailStep(i) /\ config.retryAttempts = 0) =>
                /\ \A e \in Ids(inflight[i]) :
                       fate'[e] = "dropped" /\ e \notin Ids(queue') \cup BatchIds(inflight')
                /\ queue' = queue]_vars

\* C31 witness: with retryAttempts = 0 the send of event 1 failed once; the
\* event is dropped and event 2, pushed during the send, is alone in the
\* buffer of the Idle queue.
C31_Witness ==
    /\ config.retryAttempts = 0
    /\ calls = 1
    /\ fate[1] = "dropped"
    /\ queue = <<NewItem(2)>>
    /\ inflight = <<>>
    /\ ~isFlushing

\* an event that the step evicts
Evicts == \E e \in EventIds : fate[e] # "evicted" /\ fate'[e] = "evicted"

\* C32: when a push in the Idle state makes the length both >= flushAt and
\* > maxQueueSize, the flush check runs first: the whole buffer with the new
\* event behind it goes into the batch, the buffer is empty and no item is
\* evicted by that push; a push evicts only when it did not start a flush.
C32_FlushBeforeEviction ==
    [][/\ (/\ Push
           /\ ~isFlushing
           /\ Len(queue) + 1 >= config.flushAt
           /\ Len(queue) + 1 > config.maxQueueSize) =>
              /\ StartsBatch
              /\ NewBatch = Append(queue, NewItem(nextId))
              /\ queue' = <<>>
              /\ ~Evicts
       /\ (Push /\ Evicts) => ~StartsBatch]_vars

\* C32 witness: with maxQueueSize = 2 and flushAt = 3 the third push into the
\* Idle queue started the send of all three events and evicted none.
C32_Witness ==
    /\ config.maxQueueSize = 2
    /\ config.flushAt = 3
    /\ calls = 1
    /\ inflight = <<FirstEvents(3)>>
    /\ queue = <<>>
    /\ \A e \in 1..3 : fate[e] = "live"

\* C33: clear() empties the buffer, starts no Transport call and leaves the
\* Idle/Flushing state, the timer and the batch in flight, with its attempts
\* counters, unchanged; once clear() has removed the event pushed last (so
\* that nothing was pushed after it returned) size() is 0, also when the send
\* that was in flight at the time of clear() has failed since.
C33_ClearFrame ==
    /\ [][Clear =>
             /\ queue' = <<>>
             /\ UNCHANGED <<calls, isFlushing, flushTimer, inflight>>]_vars
    /\ []((nextId > 1 /\ fate[nextId - 1] = "cleared") => queue = <<>>)

\* the place of plugin p in the registration order
RegPos(p) == CHOOSE i \in 1..Len(registered) : registered[i] = p

\* C34: for every event, two handlers of plugins of the same stage run in
\* the order in which their plugins were registered (config.plugins first,
\* in the order given, then the register() calls); every handler receives
\* the event returned by the last handler that returned one, and a handler
\* is invoked only when the one before it has settled.
C34_WithinStageOrder ==
    \A c \in 1..MaxCalls :
        /\ \A i, j \in 1..Len(Trail(c)) :
               (i < j /\ Rank(Trail(c)[i].p) = Rank(Trail(c)[j].p)) =>
                   RegPos(Trail(c)[i].p) < RegPos(Trail(c)[j].p)
        /\ \A k \in 1..Len(Trail(c)) :
               /\ Trail(c)[k].got = OkBefore(Trail(c), k)
               /\ k < Len(Trail(c)) => Trail(c)[k].res # "pending"

\* plugin p precedes plugin q in stage-then-registration order
Precedes(p, q) ==
    \/ Rank(p) < Rank(q)
    \/ Rank(p) = Rank(q) /\ RegPos(p) < RegPos(q)

Settled(p) == loadSt[p] \in {"ok", "failed"}

\* C35: load() is invoked at most once per plugin, the invocations follow
\* the stage-then-registration order, and when the load() of a plugin is
\* invoked the load() of every plugin invoked before it has settled.
C35_LoadProtocol ==
    /\ [](\A p \in AllPluginNames : Count(loads, p) <= 1)
    /\ [](\A i, j \in 1..Len(loads) : i < j => Precedes(loads[i], loads[j]))
    /\ [][Len(loads') > Len(loads) =>
             \A k \in 1..Len(loads) : Settled(loads[k])']_vars

\* a step in which a send settles: its batch is no longer in flight
Settles == Len(inflight') < Len(inflight)

\* C36 (the parts kept by the amended claim): push() is accepted in every
\* state, and the settling of a send starts no Transport call and leaves the
\* queue Idle, also when the buffer length is >= flushAt.
C36_AcceptsAndSettles ==
    /\ [](nextId <= MaxPush => ENABLED Push)
    /\ [][Settles => (calls' = calls /\ inflight' = <<>> /\ ~isFlushing')]_vars

\* C36 as claimed: ... an event pushed while a send is in flight is not part
\* of the in-flight batch, is counted by size(), and is still buffered after
\* that send succeeds.
C36_PushDuringSend ==
    /\ C36_AcceptsAndSettles
    /\ [][/\ (Push /\ inflight # <<>>) =>
               /\ inflight' = inflight
               /\ nextId \in Ids(queue')
          /\ \A i \in 1..Len(inflight) :
                 SettleOp(i, "ok") => PushedSince(inflight[i]) \subseteq Ids(queue')]_vars

\* C36 as amended: ... an event pushed while a send is in flight is not part
\* of the in-flight batch and is appended to the buffer, where the eviction
\* applies to it as to any push; a send that succeeds leaves the buffer as
\* it is, so the event is still buffered unless an overflow evicted it or
\* clear() or destroy() removed it meanwhile.
C36_PushDuringSendAmended ==
    /\ C36_AcceptsAndSettles
    /\ [][/\ (Push /\ inflight # <<>>) =>
               /\ inflight' = inflight
               /\ queue' = Evict(Append(queue, NewItem(nextId)))
               /\ nextId \in Ids(queue') \/ fate'[nextId] = "evicted"
          /\ \A i \in 1..Len(inflight) :
                 SettleOp(i, "ok") =>
                     /\ queue' = queue
                     /\ \A e \in PushedSince(inflight[i]) :
                            e \in Ids(queue') \/ fate'[e] \in {"evicted", "cleared"}]_vars

\* C36 witness: with flushAt = 1 event 2 was pushed during the send of event
\* 1; the send has succeeded, event 2 is still buffered, the queue is Idle
\* and no second Transport call was started.
C36_Witness ==
    /\ config.flushAt = 1
    /\ calls = 1
    /\ fate[1] = "sent"
    /\ queue = <<NewItem(2)>>
    /\ inflight = <<>>
    /\ ~isFlushing
    /\ nextId = 3

\* the places of event e in the buffer and in the batches in flight
Occurrences(e) ==
    Cardinality(Places(queue, e))
        + Cardinality({<<i, k>> \in (1..Len(inflight)) \X (1..MaxPush) :
                           k <= Len(inflight[i]) /\ inflight[i][k].id = e})

\* C37: in every reachable state each accepted event occurs at most once
\* across the buffer and the batch in flight together, and an event of a
\* successfully sent batch is neither buffered nor in flight again.
C37_NoDuplication ==
    \A e \in EventIds :
        /\ Occurrences(e) <= 1
        /\ fate[e] = "sent" => Occurrences(e) = 0

\* C37 witness: event 1 was sent; event 2, re-queued by a failed send, is in
\* flight again while event 3 waits in the buffer.
C37_Witness ==
    /\ fate[1] = "sent"
    /\ inflight = <<<<[id |-> 2, attempts |-> 1]>>>>
    /\ queue = <<NewItem(3)>>

\* the attempts counter of event e, which is in the buffer q or in a batch of fl
AttemptsOf(q, fl, e) ==
    LET items == Range(q) \cup UNION {Range(fl[i]) : i \in 1..Len(fl)}
    IN (CHOOSE item \in items : item.id = e).attempts

Max(a, b) == IF a >= b THEN a ELSE b

Resolved == {"sent", "dropped", "evicted", "cleared"}

\* C39: while the queue is not destroyed and its timer is running, if the
\* timer keeps firing and every Transport call eventually settles, every
\* event accepted by push eventually leaves the buffer and the batch in
\* flight, and an event that has left them was sent, dropped at the retry
\* ceiling, evicted by overflow or removed by clear().
C39_EventuallyResolved ==
    /\ \A e \in EventIds : (e \in Buffered) ~> (e \notin Buffered)
    /\ [](\A e \in EventIds :
            (e < nextId /\ e \notin Buffered) => fate[e] \in Resolved)

\* C39 witness: with retryAttempts = 2 event 1 was pushed below the
\* threshold, sent twice by timer ticks and dropped after its second failed
\* send; nothing is buffered.
C39_Witness ==
    /\ config.retryAttempts = 2
    /\ config.flushAt > 1
    /\ nextId = 2
    /\ calls = 2
    /\ fate[1] = "dropped"
    /\ queue = <<>>
    /\ inflight = <<>>

\* C40: after destroy() has returned no new Transport call is ever started,
\* also when a facade call that was awaiting its plugin pipeline at the time
\* of destroy() pushes its event later.
C40_QuiescenceAfterDestroy ==
    [][destroyedAt # 0 => calls' = calls]_vars

====
